---- MODULE Spec2Model ----
(***************************************************************************)
(* A model of the typeslice crate: type-level Cons/Nil chains, their       *)
(* projection into the List bridge (len, get, iter, Index, slice_eq), the  *)
(* literal-construction macros, and the single-scalar UTF-8 decoder `pop`. *)
(***************************************************************************)
EXTENDS Integers, Sequences, FiniteSets, TLC

VARIABLES
    chain,      \* the type-level chain S: nested Cons layers over a kind's Nil
    built,      \* ghost: the ELEMs given to the Cons layers, outermost first
    it,         \* Option<Iter>: the iterator made by LIST.iter(), if any
    yielded,    \* ghost: what each call of it.next() returned, in call order
    ret,        \* the last List operation called and what it returned
    bytes,      \* the byte slice handed to utf8::pop
    popped,     \* the call of pop made on it, if any
    encoded,    \* ghost: the scalar whose UTF-8 encoding starts the slice, if any
    mkind,      \* the kind of the literal-construction macro invoked
    args,       \* the literal values written in the macro invocation
    expansion,  \* what the macro invocation expanded to, if expanded
    tree,       \* a byte concatenation tree
    leaves,     \* ghost: the bytes of its leaves, left to right
    flat        \* the last flattening of the tree, if any

listVars == <<chain, built, it, yielded, ret>>
utf8Vars == <<bytes, popped, encoded>>
macroVars == <<mkind, args, expansion>>
treeVars == <<tree, leaves, flat>>
vars == <<listVars, utf8Vars, macroVars, treeVars>>

----------------------------------------------------------------------------
(* Bounds of the model. *)

MaxLen == 3          \* Cons layers in a chain
MaxIx == 5           \* largest index passed to get / Index
MaxSliceLen == 3     \* longest slice passed to slice_eq
MaxExtraCalls == 2   \* calls of next() made after the iterator is exhausted

----------------------------------------------------------------------------
(* Option<T>: None is the empty tuple, Some(x) the one-element tuple. *)

None == <<>>
Some(x) == <<x>>

(* The primitive kinds the `define!` macro is instantiated for (a sample of
   the fourteen of for_all_const_types!), and sample values of each. A char
   is its scalar value. *)
Kinds == {"u8", "i8", "char"}

Elems(kind) ==
    CASE kind = "u8" -> {104, 255}
      [] kind = "i8" -> {-2, 1}
      [] kind = "char" -> {104, 233}

(* usize::checked_sub *)
checked_sub(a, b) == IF a >= b THEN Some(a - b) ELSE None

----------------------------------------------------------------------------
(* The Sequence Node family: `pub struct $name<const ELEM: $ty, Rest>` and
   `pub enum $nil {}`. *)

Nil(kind) == [tag |-> "Nil", kind |-> kind]
Cons(kind, ELEM, Rest) == [tag |-> "Cons", kind |-> kind, ELEM |-> ELEM, Rest |-> Rest]

(* enum List { Item { head, rest }, Empty } *)
Empty == [tag |-> "Empty"]
Item(head, rest) == [tag |-> "Item", head |-> head, rest |-> rest]

(* LIST with `rest: &Rest::LIST` lost: every Item ends the list *)
LIST_truncated(S) ==
    IF S.tag = "Cons"
    THEN Item(S.ELEM, Empty)
    ELSE Empty

(* impl TypeSlice for $name<ELEM, Rest> / for $nil: const LIST *)
RECURSIVE LIST(_)
LIST(S) ==
    IF S.tag = "Cons"
    THEN Item(S.ELEM, LIST(S.Rest))
    ELSE Empty

(* impl TypeSlice for $name<ELEM, Rest> / for $nil: const LEN *)
RECURSIVE LEN(_)
LEN(S) ==
    IF S.tag = "Cons"
    THEN 1 + LEN(S.Rest)
    ELSE 0

(* List::new *)
new == Empty

(* List::len *)
RECURSIVE len(_)
len(self) ==
    IF self.tag = "Item"
    THEN 1 + len(self.rest)
    ELSE 0

(* get that hops to `rest` without decrementing the index *)
RECURSIVE get_no_decrement(_, _)
get_no_decrement(self, ix) ==
    IF self.tag = "Empty" THEN None
    ELSE IF ix = 0 THEN Some(self.head)
    ELSE get_no_decrement(self.rest, ix)

(* List::get *)
RECURSIVE get(_, _)
get(self, ix) ==
    IF self.tag = "Empty" THEN None
    ELSE IF ix = 0 THEN Some(self.head)
    ELSE LET nix == checked_sub(ix, 1)
         IN  IF nix # None THEN get(self.rest, nix[1]) ELSE None

(* List::is_empty *)
is_empty(self) == self.tag = "Empty"

(* List::into_option *)
into_option(self) ==
    IF self.tag = "Item" THEN Some(<<self.head, self.rest>>) ELSE None

(* List::iter *)
iter(self) == [inner |-> self]

(* Iterator::next for Iter: the value returned and the iterator afterwards *)
next(self) ==
    LET o == into_option(self.inner)
    IN  IF o # None
        THEN [ret |-> Some(o[1][1]), self |-> [inner |-> o[1][2]]]
        ELSE [ret |-> None, self |-> self]

(* size_hint with the default lower bound of 0 *)
size_hint_lower_zero(self) == <<0, Some(len(self.inner))>>

(* Iterator::size_hint for Iter *)
size_hint(self) == <<len(self.inner), Some(len(self.inner))>>

(* Draining an iterator with repeated next(), as a `for` loop or
   itertools::assert_equal does: the elements yielded before the first None. *)
RECURSIVE collect(_)
collect(self) ==
    LET r == next(self)
    IN  IF r.ret = None THEN <<>> ELSE <<r.ret[1]>> \o collect(r.self)

(* The panic message with its two arguments in the wrong order *)
index_panic_swapped(length, index) ==
    <<"index out of bounds: the len is ", index, " but the index is ", length>>

(* The panic of Index::index: the formatted message with its two arguments *)
index_panic(length, index) ==
    <<"index out of bounds: the len is ", length, " but the index is ", index>>

(* impl Index<usize> for List: either a reference to the element or a panic *)
index(self, ix) ==
    LET g == get(self, ix)
    IN  IF g # None
        THEN [tag |-> "value", it |-> g[1]]
        ELSE [tag |-> "panic", msg |-> index_panic(len(self), ix)]

(* The loop of slice_eq from position ix downwards: the result, the
   indices it read (in the order read), whether unreachable!() was reached
   and whether slice[nix] was out of bounds. *)
RECURSIVE slice_eq_loop(_, _, _, _)
slice_eq_loop(self, slice, ix, visited) ==
    LET nix == checked_sub(ix, 1)
    IN  IF nix = None
        THEN [ret |-> TRUE, visited |-> visited, unreachable |-> FALSE, oob |-> FALSE]
        ELSE LET ours == get(self, nix[1])
                 seen == Append(visited, nix[1])
             IN  IF ours = None
                 THEN [ret |-> FALSE, visited |-> seen, unreachable |-> TRUE, oob |-> FALSE]
                 ELSE IF nix[1] >= Len(slice)
                 THEN [ret |-> FALSE, visited |-> seen, unreachable |-> FALSE, oob |-> TRUE]
                 ELSE IF ours[1] # slice[nix[1] + 1]
                 THEN [ret |-> FALSE, visited |-> seen, unreachable |-> FALSE, oob |-> FALSE]
                 ELSE slice_eq_loop(self, slice, nix[1], seen)

(* slice_eq with the loop started one past the last index *)
slice_eq_run_start_past_end(self, slice) ==
    IF len(self) # Len(slice)
    THEN [ret |-> FALSE, visited |-> <<>>, unreachable |-> FALSE, oob |-> FALSE]
    ELSE slice_eq_loop(self, slice, Len(slice) + 1, <<>>)

(* slice_eq without the length check *)
slice_eq_run_no_len_check(self, slice) ==
    slice_eq_loop(self, slice, Len(slice), <<>>)

(* List::slice_eq, with the trace of the indices it read; a slice is a
   1-based sequence, so slice[nix] of the code is slice[nix + 1] here. *)
slice_eq_run(self, slice) ==
    IF len(self) # Len(slice)
    THEN [ret |-> FALSE, visited |-> <<>>, unreachable |-> FALSE, oob |-> FALSE]
    ELSE slice_eq_loop(self, slice, Len(slice), <<>>)

slice_eq(self, slice) == slice_eq_run(self, slice).ret

----------------------------------------------------------------------------
(* The state machine: a chain is defined layer by layer (each new Cons wraps
   the chain so far, so the newest layer is the outermost); once defined it
   is used through its LIST. *)

NoRet == [op |-> "none"]

(* All slices of a kind up to the bound *)
Slices(kind) == UNION {[1..n -> Elems(kind)] : n \in 0..MaxSliceLen}

NotCalled == [op |-> "none"]

(* The parts of the state a specification does not use stay as they start *)
ListIdle ==
    /\ chain = Nil("u8") /\ built = <<>> /\ it = None /\ yielded = <<>>
    /\ ret = NoRet

Utf8Idle == bytes = <<>> /\ popped = NotCalled /\ encoded = None

MacroIdle == mkind = "u8" /\ args = <<>> /\ expansion = NotCalled

TreeIdle == tree = [tag |-> "Empty"] /\ leaves = <<>> /\ flat = NotCalled

ListInit ==
    /\ chain \in {Nil(k) : k \in Kinds}
    /\ built = <<>>
    /\ it = None
    /\ yielded = <<>>
    /\ ret = NoRet

Init == ListInit /\ Utf8Idle /\ MacroIdle /\ TreeIdle

(* type S2 = $name<e, S>; types are fixed before any of them is used *)
ConsLayer ==
    /\ it = None /\ ret = NoRet
    /\ LEN(chain) < MaxLen
    /\ \E e \in Elems(chain.kind) :
        /\ chain' = Cons(chain.kind, e, chain)
        /\ built' = <<e>> \o built
    /\ UNCHANGED <<it, yielded, ret>>
    /\ UNCHANGED <<utf8Vars, macroVars, treeVars>>

(* S::LIST.len() and S::LEN *)
CallLen ==
    /\ ret' = [op |-> "len", val |-> len(LIST(chain)), LEN |-> LEN(chain)]
    /\ UNCHANGED <<chain, built, it, yielded>>
    /\ UNCHANGED <<utf8Vars, macroVars, treeVars>>

(* S::LIST.get(ix) *)
CallGet ==
    /\ \E ix \in 0..MaxIx :
        ret' = [op |-> "get", ix |-> ix, val |-> get(LIST(chain), ix)]
    /\ UNCHANGED <<chain, built, it, yielded>>
    /\ UNCHANGED <<utf8Vars, macroVars, treeVars>>

(* S::LIST[ix] *)
CallIndex ==
    /\ \E ix \in 0..MaxIx :
        ret' = [op |-> "index", ix |-> ix, val |-> index(LIST(chain), ix)]
    /\ UNCHANGED <<chain, built, it, yielded>>
    /\ UNCHANGED <<utf8Vars, macroVars, treeVars>>

(* S::LIST.slice_eq(slice) *)
CallSliceEq ==
    /\ \E slice \in Slices(chain.kind) :
        ret' = [op |-> "slice_eq", slice |-> slice,
                val |-> slice_eq(LIST(chain), slice),
                run |-> slice_eq_run(LIST(chain), slice)]
    /\ UNCHANGED <<chain, built, it, yielded>>
    /\ UNCHANGED <<utf8Vars, macroVars, treeVars>>

(* let mut it = S::LIST.iter() *)
CallIter ==
    /\ it' = Some(iter(LIST(chain)))
    /\ yielded' = <<>>
    /\ ret' = [op |-> "iter"]
    /\ UNCHANGED <<chain, built>>
    /\ UNCHANGED <<utf8Vars, macroVars, treeVars>>

(* it.next() *)
CallNext ==
    /\ it # None
    /\ Len(yielded) < LEN(chain) + MaxExtraCalls
    /\ LET r == next(it[1])
       IN  /\ it' = Some(r.self)
           /\ yielded' = Append(yielded, r.ret)
           /\ ret' = [op |-> "next", val |-> r.ret]
    /\ UNCHANGED <<chain, built>>
    /\ UNCHANGED <<utf8Vars, macroVars, treeVars>>

(* it.size_hint() *)
CallSizeHint ==
    /\ it # None
    /\ ret' = [op |-> "size_hint", val |-> size_hint(it[1])]
    /\ UNCHANGED <<chain, built, it, yielded>>
    /\ UNCHANGED <<utf8Vars, macroVars, treeVars>>

Next ==
    \/ ConsLayer
    \/ CallLen
    \/ CallGet
    \/ CallIndex
    \/ CallSliceEq
    \/ CallIter
    \/ CallNext
    \/ CallSizeHint

Spec == Init /\ [][Next]_vars

----------------------------------------------------------------------------
(* Properties of the List bridge, checked under Spec. *)

(* C1: for every kind and every chain of n Cons layers over that kind's Nil,
   LIST.len() = LEN = n, and LIST.iter() yields exactly n elements, the k-th
   being the ELEM of the k-th layer from the outermost. *)
ThmC1_LenAndIterOrder ==
    /\ chain.kind \in Kinds
    /\ LEN(chain) = Len(built)
    /\ len(LIST(chain)) = LEN(chain)
    /\ collect(iter(LIST(chain))) = built
    /\ ret.op = "len" => ret.val = Len(built) /\ ret.LEN = Len(built)

WitC1_ThreeLayers ==
    /\ ret.op = "len" /\ ret.val = 3
    /\ Len(built) = 3 /\ built[1] # built[2]

(* C2: get(i) is Some of the i-th element (index 0 is the head) when
   i < len(), and None when i >= len(), the Empty list included. *)
ThmC2_Get ==
    ret.op = "get" =>
        IF ret.ix < Len(built)
        THEN ret.val = Some(built[ret.ix + 1])
        ELSE ret.val = None

WitC2_GetInner ==
    /\ ret.op = "get" /\ ret.ix = 2
    /\ Len(built) = 3 /\ built[3] # built[2]
    /\ ret.val = Some(built[3])

(* C3: slice_eq(A) is true exactly when len() = A.len() and every element
   equals the element of A at the same index; the result depends on the
   list and the slice alone. *)
ThmC3_SliceEq ==
    ret.op = "slice_eq" =>
        ret.val = (/\ Len(built) = Len(ret.slice)
                   /\ \A i \in 1..Len(built) : built[i] = ret.slice[i])

WitC3_EqualThree ==
    /\ ret.op = "slice_eq" /\ ret.val = TRUE
    /\ Len(built) = 3 /\ built[1] # built[3]

(* C4: indexing returns the element get returns when i < len(), and
   otherwise panics with a message holding len() and i. *)
ThmC4_Index ==
    ret.op = "index" =>
        IF ret.ix < Len(built)
        THEN /\ ret.val.tag = "value"
             /\ Some(ret.val.it) = get(LIST(chain), ret.ix)
             /\ ret.val.it = built[ret.ix + 1]
        ELSE /\ ret.val.tag = "panic"
             /\ ret.val.msg[2] = Len(built)
             /\ ret.val.msg[4] = ret.ix

WitC4_PanicLen3Index5 ==
    /\ ret.op = "index" /\ ret.ix = 5 /\ Len(built) = 3
    /\ ret.val.tag = "panic"

(* C10: after k <= n calls of next() size_hint() is (n-k, Some(n-k)); the
   first n calls return the elements in order and every later call None;
   the list is unchanged, so a fresh iter() yields the n elements again. *)
ThmC10_Iterator ==
    it # None =>
        LET n == Len(built)
            k == Len(yielded)
        IN  /\ k <= n => size_hint(it[1]) = <<n - k, Some(n - k)>>
            /\ (ret.op = "size_hint" /\ k <= n) => ret.val = <<n - k, Some(n - k)>>
            /\ \A j \in 1..k :
                  yielded[j] = IF j <= n THEN Some(built[j]) ELSE None
            /\ collect(iter(LIST(chain))) = built

WitC10_Exhausted ==
    /\ it # None /\ Len(built) = 3 /\ built[1] # built[2]
    /\ Len(yielded) = 5 /\ yielded[5] = None
    /\ ret.op = "size_hint"

(* C11: in slice_eq a length mismatch returns false before any element is
   read; otherwise the loop reads indices len()-1, len()-2, ... downwards,
   each once, stopping at the first mismatch; every get in the loop is Some
   (unreachable!() is not reached), slice[nix] is in bounds, and the loop
   makes at most len() iterations. *)
ThmC11_SliceEqLoop ==
    ret.op = "slice_eq" =>
        LET n == Len(built)
            read == ret.run.visited
            k == Len(ret.run.visited)
        IN  /\ ~ret.run.unreachable
            /\ ~ret.run.oob
            /\ n # Len(ret.slice) => (ret.run.ret = FALSE /\ read = <<>>)
            /\ n = Len(ret.slice) =>
                  /\ k <= n
                  /\ \A j \in 1..k : read[j] = n - j
                  /\ \A j \in 1..k :
                        (built[read[j] + 1] = ret.slice[read[j] + 1]) <=> (j < k \/ ret.run.ret)
                  /\ ret.run.ret => k = n

WitC11_StopsAtFirstMismatch ==
    /\ ret.op = "slice_eq" /\ Len(built) = 3 /\ Len(ret.slice) = 3
    /\ ret.run.visited = <<2, 1>> /\ ret.run.ret = FALSE
    /\ built[1] # ret.slice[1]

----------------------------------------------------------------------------
(* utf8.rs: the single-scalar UTF-8 decoder. *)

MaxBytes == 4        \* bytes in the slice handed to pop

(* Sample bytes: ASCII, continuation-shaped bytes, and lead bytes of 2-, 3-
   and 4-byte sequences *)
SampleBytes == {65, 104, 128, 144, 160, 191, 192, 194, 224, 237, 240, 244}

(* The integer operators of the code: & and | bit by bit, << on u32
   (the bits shifted past bit 31 are dropped first), >> on u8 *)
RECURSIVE BitAnd(_, _)
BitAnd(a, b) ==
    IF a = 0 \/ b = 0 THEN 0
    ELSE (a % 2) * (b % 2) + 2 * BitAnd(a \div 2, b \div 2)

RECURSIVE BitOr(_, _)
BitOr(a, b) ==
    IF a = 0 THEN b
    ELSE IF b = 0 THEN a
    ELSE (IF a % 2 = 1 \/ b % 2 = 1 THEN 1 ELSE 0) + 2 * BitOr(a \div 2, b \div 2)

Shl32(a, n) == (a % 2^(32 - n)) * 2^n

Shr(a, n) == a \div 2^n

(* const CONT_MASK: u8 = 0b0011_1111 *)
CONT_MASK == 63

(* enum Pop *)
PopEmpty == [tag |-> "Empty"]
PopTruncated == [tag |-> "Truncated"]
PopInvalid == [tag |-> "Invalid"]
PopOk(c) == [tag |-> "Ok", c |-> c]

(* next_in_slice!: the byte read, if any, and the slice left *)
next_in_slice(ident) ==
    IF ident = <<>>
    THEN [val |-> None, rest |-> ident]
    ELSE [val |-> Some(Head(ident)), rest |-> Tail(ident)]

(* utf8_first_byte with the mask 0x7F left unshifted *)
utf8_first_byte_unshifted(byte, width) == BitAnd(byte, 127)

(* utf8_first_byte *)
utf8_first_byte(byte, width) == BitAnd(byte, Shr(127, width))

(* utf8_acc_cont_byte with the byte left unmasked *)
utf8_acc_cont_byte_unmasked(ch, byte) == BitOr(Shl32(ch, 6), byte)

(* utf8_acc_cont_byte *)
utf8_acc_cont_byte(ch, byte) == BitOr(Shl32(ch, 6), BitAnd(byte, CONT_MASK))

(* char::from_u32: a char is a u32 that is no surrogate and at most
   0x10FFFF *)
char_from_u32(i) ==
    IF i > 1114111 \/ (i >= 55296 /\ i <= 57343) THEN None ELSE Some(i)

(* The final match of pop with the validation left out *)
pop_finish_unchecked(ch) == [res |-> PopOk(ch), ch |-> Some(ch)]

(* The final match of pop (and the one of its ASCII branch): the result,
   with the accumulated value it was made from *)
pop_finish(ch) ==
    LET c == char_from_u32(ch)
    IN  [res |-> IF c # None THEN PopOk(c[1]) ELSE PopInvalid, ch |-> Some(ch)]

(* A missing byte ends pop before any value is accumulated *)
pop_stop(res) == [res |-> res, ch |-> None]

(* `if x >= 0xE0` one too high: 0xE0 taken for a 2-byte lead *)
needs_third_above(x) == x > 224

(* `if x >= 0xE0`: a third byte is read *)
needs_third(x) == x >= 224

(* `if x >= 0xF0`: a fourth byte is read *)
needs_fourth(x) == x >= 240

(* pop, from `if x >= 0xF0` on *)
pop_four(x, init, y_z, ch, rest) ==
    IF needs_fourth(x)
    THEN LET n == next_in_slice(rest)
         IN  IF n.val = None THEN pop_stop(PopTruncated)
             ELSE pop_finish(BitOr(Shl32(BitAnd(init, 7), 18),
                                   utf8_acc_cont_byte(y_z, n.val[1])))
    ELSE pop_finish(ch)

(* pop, from `if x >= 0xE0` on *)
pop_three(x, init, y, ch, rest) ==
    IF needs_third(x)
    THEN LET n == next_in_slice(rest)
         IN  IF n.val = None THEN pop_stop(PopTruncated)
             ELSE LET y_z == utf8_acc_cont_byte(BitAnd(y, CONT_MASK), n.val[1])
                  IN  pop_four(x, init, y_z, BitOr(Shl32(init, 12), y_z), n.rest)
    ELSE pop_finish(ch)

(* pop: the result, with the accumulated value when one was validated *)
pop_run(input) ==
    LET n1 == next_in_slice(input)
    IN  IF n1.val = None THEN pop_stop(PopEmpty)
        ELSE LET x == n1.val[1]
             IN  IF x < 128 THEN pop_finish(x)
                 ELSE LET init == utf8_first_byte(x, 2)
                          n2 == next_in_slice(n1.rest)
                      IN  IF n2.val = None THEN pop_stop(PopTruncated)
                          ELSE pop_three(x, init, n2.val[1],
                                         utf8_acc_cont_byte(init, n2.val[1]),
                                         n2.rest)

pop(input) == pop_run(input).res

(* The UTF-8 encoding of a scalar value, as char::encode_utf8 writes it *)
utf8_encode(c) ==
    IF c < 128 THEN <<c>>
    ELSE IF c < 2048
    THEN <<BitOr(192, Shr(c, 6)), BitOr(128, BitAnd(c, 63))>>
    ELSE IF c < 65536
    THEN <<BitOr(224, Shr(c, 12)), BitOr(128, BitAnd(Shr(c, 6), 63)),
           BitOr(128, BitAnd(c, 63))>>
    ELSE <<BitOr(240, Shr(c, 18)), BitOr(128, BitAnd(Shr(c, 12), 63)),
           BitOr(128, BitAnd(Shr(c, 6), 63)), BitOr(128, BitAnd(c, 63))>>

(* Sample scalar values: the ends of the 1-, 2-, 3- and 4-byte ranges, the
   neighbours of the surrogate range, and some in between *)
SampleScalars ==
    {0, 104, 127, 128, 233, 2047, 2048, 8364, 55295, 57344, 65535,
     65536, 128512, 1114111}

MaxSuffix == 2       \* bytes put after an encoded scalar

Utf8Init == bytes = <<>> /\ popped = NotCalled /\ encoded = None

(* The caller starts the slice with the encoding of a scalar value *)
EncodeScalar ==
    /\ popped = NotCalled
    /\ bytes = <<>> /\ encoded = None
    /\ \E c \in SampleScalars :
        /\ bytes' = utf8_encode(c)
        /\ encoded' = Some(c)
    /\ UNCHANGED <<popped, listVars, macroVars, treeVars>>

(* The caller puts one more byte into the slice it will decode *)
PushByte ==
    /\ popped = NotCalled
    /\ Len(bytes) < (IF encoded = None THEN MaxBytes
                     ELSE Len(utf8_encode(encoded[1])) + MaxSuffix)
    /\ \E b \in SampleBytes : bytes' = Append(bytes, b)
    /\ UNCHANGED <<popped, encoded, listVars, macroVars, treeVars>>

(* pop(bytes) *)
CallPop ==
    /\ popped = NotCalled
    /\ popped' = [op |-> "pop", input |-> bytes,
                  res |-> pop(bytes), ch |-> pop_run(bytes).ch]
    /\ UNCHANGED <<bytes, encoded, listVars, macroVars, treeVars>>

InitUtf8 == ListIdle /\ Utf8Init /\ MacroIdle /\ TreeIdle

NextUtf8 ==
    \/ EncodeScalar
    \/ PushByte
    \/ CallPop

SpecUtf8 == InitUtf8 /\ [][NextUtf8]_vars

(* The bytes a lead byte requires, itself included *)
Required(b) == IF b < 224 THEN 2 ELSE IF b < 240 THEN 3 ELSE 4

(* A legal Unicode scalar value *)
IsScalar(v) == v <= 1114111 /\ ~(v >= 55296 /\ v <= 57343)

(* C6: a continuation byte (0x80..=0xBF) in the lead position yields
   Invalid. *)
CexC6_ContinuationLeadInvalid ==
    (popped.op = "pop" /\ popped.input # <<>>
        /\ popped.input[1] >= 128 /\ popped.input[1] <= 191)
    => popped.res = PopInvalid

(* C7: pop returns Empty exactly for the empty input, and Truncated exactly
   when the first byte is >= 0x80 and the input holds fewer bytes than that
   lead byte requires. *)
ThmC7_EmptyAndTruncated ==
    popped.op = "pop" =>
        /\ popped.res = PopEmpty <=> popped.input = <<>>
        /\ popped.res = PopTruncated <=>
              (/\ popped.input # <<>>
               /\ popped.input[1] >= 128
               /\ Len(popped.input) < Required(popped.input[1]))
        /\ popped.input = <<194>> => popped.res = PopTruncated

WitC7_TruncatedThreeByteLead ==
    /\ popped.op = "pop" /\ popped.res = PopTruncated
    /\ popped.input = <<224, 128>>

(* C8: when pop has read all the bytes its lead byte requires, it returns
   Invalid exactly when the accumulated value is a surrogate or exceeds
   0x10FFFF, and otherwise Ok of the scalar with that value. *)
ThmC8_Validation ==
    (popped.op = "pop" /\ popped.input # <<>>
        /\ (popped.input[1] < 128
            \/ Len(popped.input) >= Required(popped.input[1])))
    => /\ popped.ch # None
       /\ popped.res = IF IsScalar(popped.ch[1])
                       THEN PopOk(popped.ch[1]) ELSE PopInvalid
       /\ popped.input = <<237, 160, 128>> => popped.res = PopInvalid
       /\ popped.input = <<244, 144, 128, 128>> => popped.res = PopInvalid
       /\ popped.input = <<104>> => popped.res = PopOk(104)

WitC8_SurrogateInvalid ==
    /\ popped.op = "pop" /\ popped.input = <<237, 160, 128>>
    /\ popped.ch = Some(55296) /\ popped.res = PopInvalid

(* The slice with the byte at position i replaced by b *)
Replaced(input, i, b) == [input EXCEPT ![i] = b]

(* The bytes with the same low 6 bits as b *)
SameLowSix(b) == {(b % 64) + 64 * top : top \in 0..3}

(* The continuation positions pop reads for this input *)
ContinuationPositions(input) ==
    {i \in 2..Len(input) : i <= Required(input[1])}

(* C12: for every scalar value c and every byte sequence s,
   pop(utf8_encode(c) ++ s) is Ok(c), whatever s is; in particular any
   first byte below 128 yields Ok of the character with that value. *)
ThmC12_RoundTrip ==
    popped.op = "pop" =>
        /\ encoded # None =>
              /\ SubSeq(popped.input, 1, Len(utf8_encode(encoded[1]))) = utf8_encode(encoded[1])
              /\ popped.res = PopOk(encoded[1])
        /\ (popped.input # <<>> /\ popped.input[1] < 128) =>
              popped.res = PopOk(popped.input[1])

WitC12_FourBytesAndSuffix ==
    /\ popped.op = "pop" /\ encoded = Some(128512)
    /\ popped.input = <<240, 159, 152, 128, 237, 160>>
    /\ popped.res = PopOk(128512)

(* C13: pop does not look at the top two bits of a continuation byte: when
   the first byte is >= 0x80, replacing a byte in a continuation position by
   any byte with the same low 6 bits leaves the result unchanged; so
   [0xC2, 0x41] yields Ok(U+0081) and the overlong [0xC0, 0x80] yields
   Ok(U+0000). *)
ThmC13_ContinuationTopBitsIgnored ==
    (popped.op = "pop" /\ popped.input # <<>> /\ popped.input[1] >= 128) =>
        /\ \A i \in ContinuationPositions(popped.input) :
              \A b \in SameLowSix(popped.input[i]) :
                  pop(Replaced(popped.input, i, b)) = popped.res
        /\ popped.input = <<194, 65>> => popped.res = PopOk(129)
        /\ popped.input = <<192, 128>> => popped.res = PopOk(0)

WitC13_AsciiAsContinuation ==
    /\ popped.op = "pop" /\ popped.input = <<194, 65>>
    /\ popped.res = PopOk(129)
    /\ pop(<<194, 129>>) = popped.res

----------------------------------------------------------------------------
(* gen.rs and macros/src/lib.rs: the literal-construction macros. *)

MaxLits == 4         \* literal values in one macro invocation

(* Token trees of a macro invocation: a literal, a `-`, a `,` *)
TokLit(v) == [t |-> "literal", v |-> v]
TokMinus == [t |-> "-", v |-> 0]
TokComma == [t |-> ",", v |-> 0]

(* A literal value as written: a negative one is a `-` and a literal *)
lit_tokens(v) == IF v < 0 THEN <<TokMinus, TokLit(0 - v)>> ELSE <<TokLit(v)>>

(* The tokens of `kind![a, b, c]`, with or without a trailing comma *)
RECURSIVE comma_separated(_)
comma_separated(values) ==
    IF values = <<>> THEN <<>>
    ELSE IF Len(values) = 1 THEN lit_tokens(values[1])
    ELSE lit_tokens(values[1]) \o <<TokComma>> \o comma_separated(Tail(values))

invocation(values, trailing) ==
    comma_separated(values) \o (IF trailing /\ values # <<>> THEN <<TokComma>> ELSE <<>>)

(* No rule of the macro matches the tokens: the invocation does not compile *)
NoRule == [tag |-> "error", msg |-> "no rules expected this token in macro call"]

(* `$first:literal`: an optional `-` and a literal token; the value and the
   tokens after it *)
match_literal(tokens) ==
    IF tokens # <<>> /\ tokens[1].t = "literal"
    THEN Some(<<tokens[1].v, Tail(tokens)>>)
    ELSE IF Len(tokens) >= 2 /\ tokens[1].t = "-" /\ tokens[2].t = "literal"
    THEN Some(<<0 - tokens[2].v, Tail(Tail(tokens))>>)
    ELSE None

(* `$(,$rest:tt)* $(,)?` to the end of the input: each $rest is ONE token
   tree; the token trees bound to $rest *)
RECURSIVE match_rest(_)
match_rest(tokens) ==
    IF tokens = <<>> THEN Some(<<>>)
    ELSE IF tokens[1].t # "," THEN None
    ELSE IF Len(tokens) = 1 THEN Some(<<>>)
    ELSE LET more == match_rest(Tail(Tail(tokens)))
         IN  IF more = None THEN None ELSE Some(<<tokens[2]>> \o more[1])

(* `$($rest,)*`: every $rest followed by a comma *)
RECURSIVE transcribe_rest(_)
transcribe_rest(rest) ==
    IF rest = <<>> THEN <<>>
    ELSE <<Head(rest), TokComma>> \o transcribe_rest(Tail(rest))

(* macro_rules! usize, u8, ..., char, bool: the two rules of each *)
RECURSIVE kind_macro(_, _)
kind_macro(kind, tokens) ==
    IF tokens = <<>> THEN Nil(kind)
    ELSE LET first == match_literal(tokens)
         IN  IF first = None THEN NoRule
             ELSE LET rest == match_rest(first[1][2])
                  IN  IF rest = None THEN NoRule
                      ELSE LET inner == kind_macro(kind, transcribe_rest(rest[1]))
                           IN  IF inner = NoRule THEN NoRule
                               ELSE Cons(kind, first[1][1], inner)

(* enum Chars / enum Bytes *)
TreeNil == [tag |-> "Nil"]
TreeCons(lit, rest) == [tag |-> "Cons", lit |-> lit, rest |-> rest]

(* Iterator::rev *)
rev(s) == [i \in 1..Len(s) |-> s[Len(s) + 1 - i]]

(* Iterator::fold with the closure |acc, el| Cons(Lit::new(el), Box::new(acc)) *)
RECURSIVE fold_cons(_, _)
fold_cons(acc, s) ==
    IF s = <<>> THEN acc ELSE fold_cons(TreeCons(Head(s), acc), Tail(s))

(* impl ToTokens for Chars, read back as the type it names *)
RECURSIVE Chars_to_tokens(_)
Chars_to_tokens(self) ==
    IF self.tag = "Cons"
    THEN Cons("char", self.lit, Chars_to_tokens(self.rest))
    ELSE Nil("char")

(* impl ToTokens for Bytes, read back as the type it names *)
RECURSIVE Bytes_to_tokens(_)
Bytes_to_tokens(self) ==
    IF self.tag = "Cons"
    THEN Cons("u8", self.lit, Bytes_to_tokens(self.rest))
    ELSE Nil("u8")

(* expand_chars: lit is the Option<LitStr>, a string being its chars *)
expand_chars(lit) ==
    LET root == IF lit # None THEN fold_cons(TreeNil, rev(lit[1])) ELSE TreeNil
    IN  Chars_to_tokens(root)

(* expand_bytes: lit is the Option<LitByteStr> *)
expand_bytes(lit) ==
    LET root == IF lit # None THEN fold_cons(TreeNil, rev(lit[1])) ELSE TreeNil
    IN  Bytes_to_tokens(root)

(* from_str! / from_bytes! *)
from_str(item) == expand_chars(item)
from_bytes(item) == expand_bytes(item)

(* The arguments a string-literal macro can be given for the values written:
   the literal, or nothing at all when there are no values *)
LitArgs(values) == {Some(values)} \cup (IF values = <<>> THEN {None} ELSE {})

MacroInit == mkind \in Kinds /\ args = <<>> /\ expansion = NotCalled

(* One more literal value is written in the invocation *)
WriteLit ==
    /\ expansion = NotCalled
    /\ Len(args) < MaxLits
    /\ \E v \in Elems(mkind) : args' = Append(args, v)
    /\ UNCHANGED <<mkind, expansion, listVars, utf8Vars, treeVars>>

(* typeslice::kind![args] *)
ExpandKindMacro ==
    /\ expansion = NotCalled
    /\ \E trailing \in BOOLEAN :
        expansion' = [op |-> "kind_macro", lits |-> args, trailing |-> trailing,
                      out |-> kind_macro(mkind, invocation(args, trailing))]
    /\ UNCHANGED <<mkind, args, listVars, utf8Vars, treeVars>>

(* typeslice::from_str!("args") *)
ExpandFromStr ==
    /\ expansion = NotCalled
    /\ mkind = "char"
    /\ \E item \in LitArgs(args) :
        expansion' = [op |-> "from_str", lits |-> args, item |-> item,
                      out |-> from_str(item)]
    /\ UNCHANGED <<mkind, args, listVars, utf8Vars, treeVars>>

(* typeslice::from_bytes!(b"args") *)
ExpandFromBytes ==
    /\ expansion = NotCalled
    /\ mkind = "u8"
    /\ \E item \in LitArgs(args) :
        expansion' = [op |-> "from_bytes", lits |-> args, item |-> item,
                      out |-> from_bytes(item)]
    /\ UNCHANGED <<mkind, args, listVars, utf8Vars, treeVars>>

InitMacro == ListIdle /\ Utf8Idle /\ MacroInit /\ TreeIdle

NextMacro ==
    \/ WriteLit
    \/ ExpandKindMacro
    \/ ExpandFromStr
    \/ ExpandFromBytes

SpecMacro == InitMacro /\ [][NextMacro]_vars

(* The chain of one Cons layer per value, the first value outermost *)
RECURSIVE ChainOf(_, _)
ChainOf(kind, values) ==
    IF values = <<>> THEN Nil(kind)
    ELSE Cons(kind, Head(values), ChainOf(kind, Tail(values)))

(* C5: for every literal sequence of N values of one kind the macros emit
   the chain of exactly N Cons layers over the kind's Nil in input order
   (just the Nil for no values), so from_str!/from_bytes! emit what
   char!/u8! emit for the same values. *)
CexC5_MacrosEmitChain ==
    expansion.op # "none" =>
        /\ expansion.out = ChainOf(mkind, expansion.lits)
        /\ LEN(expansion.out) = Len(expansion.lits)
        /\ expansion.op = "from_str" =>
              expansion.out = kind_macro("char", invocation(expansion.lits, FALSE))
        /\ expansion.op = "from_bytes" =>
              expansion.out = kind_macro("u8", invocation(expansion.lits, FALSE))

----------------------------------------------------------------------------
(* The byte concatenation tree: single-byte leaves, Empty leaves and
   concatenation nodes, flattened left to right. *)

MaxConcat == 3       \* concatenation nodes in a tree

LeafByte(b) == [tag |-> "Leaf", byte |-> b]
EmptyLeaf == [tag |-> "Empty"]
Concat(Left, Right) == [tag |-> "Concat", Left |-> Left, Right |-> Right]

(* Sample leaves: two distinct bytes and the Empty leaf *)
SampleLeaves == {LeafByte(65), LeafByte(66), EmptyLeaf}

(* LEN: 1 for a leaf, 0 for Empty, Left.LEN + Right.LEN for a concatenation *)
RECURSIVE TreeLEN(_)
TreeLEN(T) ==
    IF T.tag = "Leaf" THEN 1
    ELSE IF T.tag = "Empty" THEN 0
    ELSE TreeLEN(T.Left) + TreeLEN(T.Right)

(* write_into with the Right sub-tree written before the Left *)
RECURSIVE write_into_right_first(_, _, _)
write_into_right_first(T, buffer, at) ==
    IF T.tag = "Leaf" THEN [buffer |-> [buffer EXCEPT ![at] = T.byte], at |-> at + 1]
    ELSE IF T.tag = "Empty" THEN [buffer |-> buffer, at |-> at]
    ELSE LET first == write_into_right_first(T.Right, buffer, at)
         IN  write_into_right_first(T.Left, first.buffer, first.at)

(* write_into: writes the tree's bytes at the front of the unwritten region
   of buffer, which starts at position at, and returns the buffer with the
   start of what is left unwritten. A concatenation of two single bytes is
   written directly; any other has Left write, then Right into the rest. *)
RECURSIVE write_into(_, _, _)
write_into(T, buffer, at) ==
    IF T.tag = "Leaf" THEN [buffer |-> [buffer EXCEPT ![at] = T.byte], at |-> at + 1]
    ELSE IF T.tag = "Empty" THEN [buffer |-> buffer, at |-> at]
    ELSE IF T.Left.tag = "Leaf" /\ T.Right.tag = "Leaf"
    THEN [buffer |-> [buffer EXCEPT ![at] = T.Left.byte, ![at + 1] = T.Right.byte],
          at |-> at + 2]
    ELSE LET first == write_into(T.Left, buffer, at)
         IN  write_into(T.Right, first.buffer, first.at)

(* bytes(): the bytes the lazy traversal yields, in the order yielded *)
RECURSIVE tree_bytes(_)
tree_bytes(T) ==
    IF T.tag = "Leaf" THEN <<T.byte>>
    ELSE IF T.tag = "Empty" THEN <<>>
    ELSE tree_bytes(T.Left) \o tree_bytes(T.Right)

(* to_owned_bytes: a buffer of LEN bytes filled by write_into *)
to_owned_bytes(T) == write_into(T, [i \in 1..TreeLEN(T) |-> 0], 1).buffer

(* The concatenation nodes of a tree *)
RECURSIVE Concats(_)
Concats(T) ==
    IF T.tag = "Concat" THEN 1 + Concats(T.Left) + Concats(T.Right) ELSE 0

(* The bytes a sample leaf holds *)
LeafBytes(T) == IF T.tag = "Leaf" THEN <<T.byte>> ELSE <<>>

TreeInit ==
    /\ tree \in SampleLeaves
    /\ leaves = LeafBytes(tree)
    /\ flat = NotCalled

(* Concat<tree, t> *)
ConcatRight ==
    /\ Concats(tree) < MaxConcat
    /\ \E t \in SampleLeaves :
        /\ tree' = Concat(tree, t)
        /\ leaves' = leaves \o LeafBytes(t)
    /\ flat' = NotCalled
    /\ UNCHANGED <<listVars, utf8Vars, macroVars>>

(* Concat<t, tree> *)
ConcatLeft ==
    /\ Concats(tree) < MaxConcat
    /\ \E t \in SampleLeaves :
        /\ tree' = Concat(t, tree)
        /\ leaves' = LeafBytes(t) \o leaves
    /\ flat' = NotCalled
    /\ UNCHANGED <<listVars, utf8Vars, macroVars>>

(* The same leaves grouped the other way: ((A.B).C) becomes (A.(B.C)) *)
RegroupRight ==
    /\ tree.tag = "Concat" /\ tree.Left.tag = "Concat"
    /\ tree' = Concat(tree.Left.Left, Concat(tree.Left.Right, tree.Right))
    /\ UNCHANGED <<leaves, flat, listVars, utf8Vars, macroVars>>

(* (A.(B.C)) becomes ((A.B).C) *)
RegroupLeft ==
    /\ tree.tag = "Concat" /\ tree.Right.tag = "Concat"
    /\ tree' = Concat(Concat(tree.Left, tree.Right.Left), tree.Right.Right)
    /\ UNCHANGED <<leaves, flat, listVars, utf8Vars, macroVars>>

(* tree.to_owned_bytes() and tree.bytes() *)
Flatten ==
    /\ flat' = [op |-> "flatten", owned |-> to_owned_bytes(tree),
                bytes |-> tree_bytes(tree), LEN |-> TreeLEN(tree)]
    /\ UNCHANGED <<tree, leaves, listVars, utf8Vars, macroVars>>

InitTree == ListIdle /\ Utf8Idle /\ MacroIdle /\ TreeInit

NextTree ==
    \/ ConcatRight
    \/ ConcatLeft
    \/ RegroupRight
    \/ RegroupLeft
    \/ Flatten

SpecTree == InitTree /\ [][NextTree]_vars

(* C9: to_owned_bytes() has exactly LEN bytes, the leaves' bytes in
   left-to-right order; trees with the same leaves grouped differently
   flatten to the same bytes (a flattening made before a regrouping equals
   the one made after); bytes() yields the same sequence. *)
ThmC9_Flatten ==
    /\ Len(to_owned_bytes(tree)) = TreeLEN(tree)
    /\ to_owned_bytes(tree) = leaves
    /\ tree_bytes(tree) = leaves
    /\ flat.op = "flatten" =>
          /\ flat.owned = to_owned_bytes(tree)
          /\ flat.bytes = flat.owned
          /\ flat.LEN = Len(flat.owned)

WitC9_RegroupedABC ==
    /\ flat.op = "flatten" /\ flat.owned = <<65, 66, 65>>
    /\ tree = Concat(LeafByte(65), Concat(LeafByte(66), LeafByte(65)))

====
